---- MODULE Spec2Model ----
(***************************************************************************)
(* Helioscope: the inference runner (modeltester_UI_mit.py) and the        *)
(* Streamlit calling layer (helioscopefinal_mit.py).                       *)
(*                                                                         *)
(* The runner is a process with a program counter rpc; the calling layer   *)
(* is a script that Streamlit reruns from the top on every interaction.    *)
(* RunnerSpec starts the runner from the command line, Spec drives it from *)
(* the calling layer.                                                      *)
(***************************************************************************)
EXTENDS Integers, Sequences, FiniteSets, TLC

VARIABLES
  \* ---- the runner process (modeltester_UI_mit.py) ----
  rpc,                   \* position of the runner: "none" when no process exists
  argv,                  \* [n |-> len(sys.argv), path |-> sys.argv[1]]
  model,                 \* the loaded model ("" before load_model returns)
  image,                 \* <<H, W>> of the image read (<<>> before the read)
  positions,             \* extract_patches' positions list
  k,                     \* 1-based index of the next patch of the for loop
  mask_out,              \* the H x W mask, a sequence of rows
  total_rooftop_pixels,  \* the running count
  rooftop_area,          \* rooftop_pixels * PIXEL_AREA_M2, in 1e-4 m^2
  stdout,                \* the lines printed so far
  returncode,            \* exit status (None while running or killed)
  trace,                 \* the steps of main completed so far, in order
  \* ---- the file system ----
  files,                 \* path |-> <<H, W>> of the raster stored there
  results_png,           \* the writes of results.png, oldest first: r a figure
                         \* saved by run r, -r a write of run r cut short
  \* ---- the calling layer (helioscopefinal_mit.py) ----
  uipc,                  \* "idle" | "script" | "waiting"
  uploaded_file,         \* <<H, W>> of the upload held by the widget, <<>> if none
  run_button,            \* the button's value in the current rerun
  temp_image_path,       \* path of the temporary file of the current rerun
  shown,                 \* what the current rerun has rendered
  runs                   \* number of reruns of the script so far

rvars == <<rpc, argv, model, image, positions, k, mask_out,
           total_rooftop_pixels, rooftop_area, stdout, returncode, trace>>
fvars == <<files, results_png>>
uvars == <<uipc, uploaded_file, run_button, temp_image_path, shown, runs>>
vars == <<rvars, fvars, uvars>>

-----------------------------------------------------------------------------
(* Configuration of the runner *)

PATCH_SIZE == 128
STRIDE == 128
\* PIXEL_AREA_M2 = 0.09, in units of 1e-4 m^2
PIXEL_AREA_M2 == 900

\* Python's None for an integer-valued variable
None == -1

-----------------------------------------------------------------------------
(* Bounds of the model *)

\* most patches an input image of RunnerSpec tiles into
MaxPatches == 4
\* most reruns of the calling layer's script
MaxRuns == 3

\* sizes beyond a whole number of patches that an image side may have
Remainders == {0, 72}

\* the path given on the command line in RunnerSpec, and one that does not exist
ImagePath == 0
MissingPath == 99

\* the images of RunnerSpec: a x b whole patches, a * b <= MaxPatches, both
\* sides exact or both with the same remainder; no side is 0
Images ==
  {<<a * PATCH_SIZE + r, b * PATCH_SIZE + r>> :
     <<a, b, r>> \in
       {t \in (0..MaxPatches) \X (0..MaxPatches) \X Remainders :
          /\ t[1] * t[2] <= MaxPatches
          /\ t[3] = 0 => (t[1] > 0 /\ t[2] > 0)}}

\* a file that is no raster with three bands
Unreadable == <<0, 0>>

\* the uploads of Spec
Uploads == {Unreadable, <<72, PATCH_SIZE>>, <<PATCH_SIZE + 72, 2 * PATCH_SIZE>>}

\* the behaviours of the loaded network the model distinguishes
Models == {"background", "rooftop", "mixed"}

-----------------------------------------------------------------------------
(* Pure functions of the runner *)

\* list(range(start, stop, step)), step > 0
Range(start, stop, step) ==
  LET n == IF stop > start THEN (stop - start + step - 1) \div step ELSE 0
  IN  [i \in 1..n |-> start + (i - 1) * step]

\* the inner for loop of extract_patches: one position per x, for a fixed y
InnerLoop(y, xs) == [j \in 1..Len(xs) |-> <<y, xs[j]>>]

RECURSIVE OuterLoop(_, _, _)
OuterLoop(ys, xs, i) ==
  IF i > Len(ys) THEN <<>>
  ELSE InnerLoop(ys[i], xs) \o OuterLoop(ys, xs, i + 1)

extract_patches_short(H, W, size, stride) ==
  OuterLoop(Range(0, H - size, stride), Range(0, W - size, stride), 1)

\* extract_patches: the positions list (a patch is image[y:y+size, x:x+size])
extract_patches(H, W, size, stride) ==
  OuterLoop(Range(0, H - size + 1, stride), Range(0, W - size + 1, stride), 1)

zeros_tiled(H, W) ==
  [r \in 1..((H \div PATCH_SIZE) * PATCH_SIZE) |->
     [c \in 1..((W \div PATCH_SIZE) * PATCH_SIZE) |-> 0]]

\* np.zeros((H, W), dtype=np.uint8)
zeros(H, W) == [r \in 1..H |-> [c \in 1..W |-> 0]]

\* torch.argmax(model(input), dim=0) for the patch at offset (y, x): a
\* PATCH_SIZE x PATCH_SIZE array of class ids, indexed from 0 by (dy, dx).
pred_mask(m, y, x, dy, dx) ==
  CASE m = "background" -> 0
    [] m = "rooftop" -> 1
    [] OTHER ->
         IF dx > dy + 16 * (2 * (y \div PATCH_SIZE) + (x \div PATCH_SIZE))
         THEN 1 ELSE 0

\* np.sum(pred_mask == 1)
sum_eq_1(m, y, x) ==
  Cardinality({d \in (0..(PATCH_SIZE - 1)) \X (0..(PATCH_SIZE - 1)) :
                 pred_mask(m, y, x, d[1], d[2]) = 1})

assign_patch_transposed(mask, m, y, x) ==
  [r \in 1..Len(mask) |->
     [c \in 1..Len(mask[r]) |->
        IF /\ y < r /\ r <= y + PATCH_SIZE
           /\ x < c /\ c <= x + PATCH_SIZE
        THEN pred_mask(m, y, x, c - 1 - x, r - 1 - y)
        ELSE mask[r][c]]]

\* mask_out[y:y+PATCH_SIZE, x:x+PATCH_SIZE] = pred_mask  (rows and columns of
\* the sequence-of-rows are 1-based, numpy's are 0-based)
assign_patch(mask, m, y, x) ==
  [r \in 1..Len(mask) |->
     [c \in 1..Len(mask[r]) |->
        IF /\ y < r /\ r <= y + PATCH_SIZE
           /\ x < c /\ c <= x + PATCH_SIZE
        THEN pred_mask(m, y, x, r - 1 - y, c - 1 - x)
        ELSE mask[r][c]]]

accumulate_assign(total, m, y, x) == sum_eq_1(m, y, x)

\* total_rooftop_pixels += np.sum(pred_mask == 1)
accumulate(total, m, y, x) == total + sum_eq_1(m, y, x)

\* The double product n * 0.09 differs from the real n * 0.09 by far less
\* than 1e-4 for every n the model reaches; FloatErr is that error in 1e-4.
FloatErr == {-1, 0, 1}

format_2f_truncating(v) == <<v \div 10000, (v % 10000) \div 100>>

\* f"{v:.2f}" of a value v >= 0 given in 1e-4: <<integer part, two decimals>>,
\* rounded to the nearest hundredth, ties to even
format_2f(v) ==
  LET q == v \div 100
      rem == v % 100
      h == IF rem > 50 \/ (rem = 50 /\ q % 2 = 1) THEN q + 1 ELSE q
  IN  <<h \div 100, h % 100>>

\* a printed line: its leading text and the numbers that follow it
Line(text, val) == [text |-> text, val |-> val]

\* one step of main, as recorded in trace; y and x are 0 except for a patch
Ev(step, y, x) == [step |-> step, y |-> y, x |-> x]

NextStepReportFirst(s) ==
  CASE s = "infer" -> "report"
    [] s = "report" -> "save"
    [] OTHER -> "return"

\* the statement of main that follows s: the inference, then the figure is
\* saved (lines 76-89), then the RESULTS block is printed (lines 92-95)
NextStep(s) ==
  CASE s = "infer" -> "save"
    [] s = "save" -> "report"
    [] OTHER -> "return"

ArgsOkCountOnly(a, fs) == a.n = 2

\* the two checks of the __main__ block
ArgsOk(a, fs) == a.n = 2 /\ a.path \in DOMAIN fs

\* the caller's scan of result.stdout, lines i.. : the last ROOFTOP_PIXELS:
\* line through int(), the last ROOFTOP_AREA: line through float() (kept in
\* hundredths)
RECURSIVE ParseLines(_, _, _)
ParseLines(lines, i, acc) ==
  IF i > Len(lines) THEN acc
  ELSE ParseLines(lines, i + 1,
         IF lines[i].text = "ROOFTOP_PIXELS:"
         THEN [acc EXCEPT !.rooftop_pixels = lines[i].val[1]]
         ELSE IF lines[i].text = "ROOFTOP_AREA:"
         THEN [acc EXCEPT !.rooftop_area =
                            100 * lines[i].val[1] + lines[i].val[2]]
         ELSE acc)

\* a page on which the rerun has rendered nothing yet
Blank == [preview |-> "none", status |-> "", rooftop_pixels |-> None,
          rooftop_area |-> None, visualization |-> 0]

\* the branches under "if result.returncode == 0": the metric cards, the
\* figure if results.png exists, or an error
Render(page, rc, out, png) ==
  IF rc = 0
  THEN LET parsed == ParseLines(out, 1, [rooftop_pixels |-> None,
                                         rooftop_area |-> None])
       IN  IF parsed.rooftop_pixels # None /\ parsed.rooftop_area # None
           THEN [page EXCEPT !.status = "success",
                             !.rooftop_pixels = parsed.rooftop_pixels,
                             !.rooftop_area = parsed.rooftop_area,
                             !.visualization =
                               IF png # <<>> THEN png[Len(png)] ELSE 0]
           ELSE [page EXCEPT !.status = "parse_error"]
  ELSE [page EXCEPT !.status = "failed"]

\* os.unlink(temp_image_path)
Unlink(fs, path) == [p \in DOMAIN fs \ {path} |-> fs[p]]

-----------------------------------------------------------------------------
(* The runner process *)

\* the runner's memory before main has assigned anything, and after exit
NoMemory ==
  /\ model' = ""
  /\ image' = <<>>
  /\ positions' = <<>>
  /\ k' = 0
  /\ mask_out' = <<>>
  /\ total_rooftop_pixels' = 0
  /\ rooftop_area' = 0

\* an exception nothing catches: the interpreter prints the traceback to
\* stderr and exits with status 1
Raise ==
  /\ rpc' = "exited"
  /\ returncode' = 1
  /\ NoMemory

\* if __name__ == "__main__": the argument checks, then main(image_path)
CheckArgs ==
  /\ rpc = "start"
  /\ IF ArgsOk(argv, files)
     THEN /\ rpc' = "load"
          /\ trace' = Append(trace, Ev("START", 0, 0))
          /\ UNCHANGED <<stdout, returncode>>
     ELSE /\ stdout' = Append(stdout,
                         IF argv.n # 2 THEN Line("Usage:", <<>>)
                         ELSE Line("Error: Image file", <<argv.path>>))
          /\ rpc' = "exited"
          /\ returncode' = 1
          /\ UNCHANGED trace
  /\ UNCHANGED <<argv, model, image, positions, k, mask_out,
                 total_rooftop_pixels, rooftop_area, fvars, uvars>>

\* print("Loading model..."); model = load_model()
LoadModel ==
  /\ rpc = "load"
  /\ stdout' = Append(stdout, Line("Loading model...", <<>>))
  /\ \/ /\ \E m \in Models : model' = m
        /\ rpc' = "read"
        /\ trace' = Append(trace, Ev("MODEL_LOADED", 0, 0))
        /\ UNCHANGED <<image, positions, k, mask_out, total_rooftop_pixels,
                       rooftop_area, returncode>>
     \/ /\ Raise
        /\ UNCHANGED trace
  /\ UNCHANGED <<argv, fvars, uvars>>

\* print("Reading image..."); rasterio.open(image_path), src.read([1, 2, 3])
ReadImage ==
  /\ rpc = "read"
  /\ stdout' = Append(stdout, Line("Reading image...", <<>>))
  /\ \/ /\ argv.path \in DOMAIN files
        /\ files[argv.path] # Unreadable
        /\ image' = files[argv.path]
        /\ rpc' = "tile"
        /\ trace' = Append(trace, Ev("IMAGE_READ", 0, 0))
        /\ UNCHANGED <<model, positions, k, mask_out, total_rooftop_pixels,
                       rooftop_area, returncode>>
     \/ /\ Raise
        /\ UNCHANGED trace
  /\ UNCHANGED <<argv, fvars, uvars>>

\* print("Running inference..."); infer_full_mask up to its for loop
Tile ==
  /\ rpc = "tile"
  /\ stdout' = Append(stdout, Line("Running inference...", <<>>))
  /\ positions' = extract_patches(image[1], image[2], PATCH_SIZE, STRIDE)
  /\ mask_out' = zeros(image[1], image[2])
  /\ total_rooftop_pixels' = 0
  /\ k' = 1
  /\ rpc' = "infer"
  /\ trace' = Append(trace, Ev("TILES_GENERATED", 0, 0))
  /\ UNCHANGED <<argv, model, image, rooftop_area, returncode, fvars, uvars>>

\* one iteration of the for loop of infer_full_mask
InferPatch ==
  /\ rpc = "infer"
  /\ k <= Len(positions)
  /\ LET y == positions[k][1]
         x == positions[k][2]
     IN  \/ /\ mask_out' = assign_patch(mask_out, model, y, x)
            /\ total_rooftop_pixels' =
                 accumulate(total_rooftop_pixels, model, y, x)
            /\ k' = k + 1
            /\ trace' = trace \o <<Ev("PATCH_INFERRED", y, x),
                                   Ev("PATCH_STITCHED", y, x)>>
            /\ UNCHANGED <<rpc, model, image, positions, rooftop_area,
                           returncode>>
         \/ /\ Raise
            /\ UNCHANGED trace
  /\ UNCHANGED <<argv, stdout, fvars, uvars>>

\* the loop is over: infer_full_mask returns, main computes the area and
\* prints the two human-readable lines
Area ==
  /\ rpc = "infer"
  /\ k > Len(positions)
  /\ \E e \in FloatErr :
       /\ total_rooftop_pixels = 0 => e = 0
       /\ rooftop_area' = total_rooftop_pixels * PIXEL_AREA_M2 + e
  /\ stdout' = stdout \o
       <<Line("Rooftop Pixels:", <<total_rooftop_pixels>>),
         Line("Estimated Rooftop Area:", format_2f(rooftop_area'))>>
  /\ rpc' = NextStep("infer")
  /\ UNCHANGED <<argv, model, image, positions, k, mask_out,
                 total_rooftop_pixels, returncode, trace, fvars, uvars>>

\* plt.savefig("results.png") raises and nothing is reported
SaveVisualizationFailsSwallowed ==
  /\ rpc = "save"
  /\ results_png' \in {results_png, Append(results_png, -runs)}
  /\ rpc' = NextStep("save")
  /\ UNCHANGED <<argv, model, image, positions, k, mask_out,
                 total_rooftop_pixels, rooftop_area, stdout, returncode,
                 trace, files, uvars>>

\* plt.savefig("results.png") raises: the file is left as it was or cut short
SaveVisualizationFails ==
  /\ rpc = "save"
  /\ results_png' \in {results_png, Append(results_png, -runs)}
  /\ Raise
  /\ UNCHANGED <<argv, stdout, trace, files, uvars>>

\* the figure is drawn and written to results.png
SaveVisualization ==
  /\ rpc = "save"
  /\ results_png' = Append(results_png, runs)
  /\ rpc' = NextStep("save")
  /\ trace' = Append(trace, Ev("VISUALIZATION_SAVED", 0, 0))
  /\ UNCHANGED <<argv, model, image, positions, k, mask_out,
                 total_rooftop_pixels, rooftop_area, stdout, returncode,
                 files, uvars>>

\* the four prints of the RESULTS block
Report ==
  /\ rpc = "report"
  /\ stdout' = stdout \o
       <<Line("RESULTS_START", <<>>),
         Line("ROOFTOP_PIXELS:", <<total_rooftop_pixels>>),
         Line("ROOFTOP_AREA:", format_2f(rooftop_area)),
         Line("RESULTS_END", <<>>)>>
  /\ rpc' = NextStep("report")
  /\ trace' = Append(trace, Ev("RESULT_REPORTED", 0, 0))
  /\ UNCHANGED <<argv, model, image, positions, k, mask_out,
                 total_rooftop_pixels, rooftop_area, returncode, fvars, uvars>>

\* main returns and the interpreter exits with status 0
ExitOk ==
  /\ rpc = "return"
  /\ rpc' = "exited"
  /\ returncode' = 0
  /\ NoMemory
  /\ trace' = Append(trace, Ev("DONE", 0, 0))
  /\ UNCHANGED <<argv, stdout, fvars, uvars>>

Runner ==
  \/ CheckArgs
  \/ LoadModel
  \/ ReadImage
  \/ Tile
  \/ InferPatch
  \/ Area
  \/ SaveVisualization
  \/ SaveVisualizationFails
  \/ Report
  \/ ExitOk

\* a shell runs the runner: any argument count, an existing or a missing path
InitRunner ==
  /\ rpc = "start"
  /\ \E img \in Images : files = (ImagePath :> img)
  /\ \/ argv = [n |-> 2, path |-> ImagePath]
     \/ /\ files[ImagePath] = <<PATCH_SIZE, PATCH_SIZE>>
        /\ argv \in {[n |-> 1, path |-> MissingPath],
                     [n |-> 3, path |-> ImagePath],
                     [n |-> 2, path |-> MissingPath]}
  /\ model = ""
  /\ image = <<>>
  /\ positions = <<>>
  /\ k = 0
  /\ mask_out = <<>>
  /\ total_rooftop_pixels = 0
  /\ rooftop_area = 0
  /\ stdout = <<>>
  /\ returncode = None
  /\ trace = <<>>
  /\ results_png = <<>>
  /\ uipc = "idle"
  /\ uploaded_file = <<>>
  /\ run_button = FALSE
  /\ temp_image_path = None
  /\ shown = Blank
  /\ runs = 1

RunnerSpec == InitRunner /\ [][Runner]_vars

-----------------------------------------------------------------------------
(* The calling layer: one rerun of the script per interaction *)

\* Streamlit starts the script again from the top: the page is redrawn and
\* the result of an earlier rerun is gone
Rerun ==
  /\ uipc = "idle"
  /\ runs < MaxRuns
  /\ runs' = runs + 1
  /\ uipc' = "script"
  /\ shown' = Blank
  /\ rpc' = "none"
  /\ argv' = [n |-> 0, path |-> None]
  /\ stdout' = <<>>
  /\ returncode' = None
  /\ trace' = <<>>
  /\ NoMemory
  /\ UNCHANGED <<temp_image_path, fvars>>

\* the user puts a file into st.file_uploader
UserUpload ==
  /\ Rerun
  /\ \E img \in Uploads : uploaded_file' = img
  /\ run_button' = FALSE

\* the user changes the st.selectbox
UserSelectLocation ==
  /\ Rerun
  /\ run_button' = FALSE
  /\ UNCHANGED uploaded_file

\* the user presses the button, which exists once a file is uploaded
UserClickRun ==
  /\ Rerun
  /\ uploaded_file # <<>>
  /\ run_button' = TRUE
  /\ UNCHANGED uploaded_file

\* lines 127-147: the upload is written to a new temporary file and shown
WriteTempAndPreview ==
  /\ files' = (runs :> uploaded_file) @@ files
  /\ temp_image_path' = runs
  /\ shown' = [shown EXCEPT !.preview = IF uploaded_file = Unreadable
                                        THEN "error" ELSE "image"]

\* a rerun with no upload renders the header and the footer
ScriptNoUpload ==
  /\ uipc = "script"
  /\ uploaded_file = <<>>
  /\ uipc' = "idle"
  /\ UNCHANGED <<rvars, fvars, uploaded_file, run_button, temp_image_path,
                 shown, runs>>

\* a rerun with an upload and the button not pressed
ScriptPreview ==
  /\ uipc = "script"
  /\ uploaded_file # <<>>
  /\ ~run_button
  /\ WriteTempAndPreview
  /\ uipc' = "idle"
  /\ UNCHANGED <<rvars, results_png, uploaded_file, run_button, runs>>

\* a rerun with the button pressed, up to subprocess.run starting the runner
ScriptRunDetection ==
  /\ uipc = "script"
  /\ uploaded_file # <<>>
  /\ run_button
  /\ WriteTempAndPreview
  /\ rpc' = "start"
  /\ argv' = [n |-> 2, path |-> runs]
  /\ uipc' = "waiting"
  /\ UNCHANGED <<model, image, positions, k, mask_out, total_rooftop_pixels,
                 rooftop_area, stdout, returncode, trace, results_png,
                 uploaded_file, run_button, runs>>

\* subprocess.run raises (no interpreter, say): except Exception, finally
ScriptRunException ==
  /\ uipc = "script"
  /\ uploaded_file # <<>>
  /\ run_button
  /\ temp_image_path' = runs
  /\ shown' = [shown EXCEPT !.preview = IF uploaded_file = Unreadable
                                        THEN "error" ELSE "image",
                            !.status = "exception"]
  /\ files' = Unlink((runs :> uploaded_file) @@ files, runs)
  /\ uipc' = "idle"
  /\ UNCHANGED <<rvars, results_png, uploaded_file, run_button, runs>>

\* the runner has exited: lines 168-273, then the finally clause
SubprocessReturns ==
  /\ uipc = "waiting"
  /\ rpc = "exited"
  /\ shown' = Render(shown, returncode, stdout, results_png)
  /\ files' = Unlink(files, temp_image_path)
  /\ uipc' = "idle"
  /\ UNCHANGED <<rvars, results_png, uploaded_file, run_button,
                 temp_image_path, runs>>

TimeoutSalvagesOutput ==
  /\ uipc = "waiting"
  /\ rpc \notin {"none", "exited", "killed"}
  /\ rpc' = "killed"
  /\ NoMemory
  /\ shown' = [Render(shown, 0, stdout, results_png) EXCEPT
                 !.status = "timeout"]
  /\ files' = Unlink(files, temp_image_path)
  /\ uipc' = "idle"
  /\ results_png' \in IF rpc = "save"
                      THEN {results_png, Append(results_png, -runs)}
                      ELSE {results_png}
  /\ UNCHANGED <<argv, stdout, returncode, trace, uploaded_file,
                 run_button, temp_image_path, runs>>

\* the 300 s pass before the runner exits: subprocess.run kills it and raises
\* TimeoutExpired; lines 275-276, then the finally clause. A runner killed
\* while it saves the figure may leave results.png cut short.
Timeout ==
  /\ uipc = "waiting"
  /\ rpc \notin {"none", "exited", "killed"}
  /\ rpc' = "killed"
  /\ NoMemory
  /\ shown' = [shown EXCEPT !.status = "timeout"]
  /\ files' = Unlink(files, temp_image_path)
  /\ uipc' = "idle"
  /\ results_png' \in IF rpc = "save"
                      THEN {results_png, Append(results_png, -runs)}
                      ELSE {results_png}
  /\ UNCHANGED <<argv, stdout, returncode, trace, uploaded_file,
                 run_button, temp_image_path, runs>>

\* the page after its first load, before any interaction
Init ==
  /\ rpc = "none"
  /\ argv = [n |-> 0, path |-> None]
  /\ model = ""
  /\ image = <<>>
  /\ positions = <<>>
  /\ k = 0
  /\ mask_out = <<>>
  /\ total_rooftop_pixels = 0
  /\ rooftop_area = 0
  /\ stdout = <<>>
  /\ returncode = None
  /\ trace = <<>>
  /\ files = <<>>
  /\ results_png = <<>>
  /\ uipc = "idle"
  /\ uploaded_file = <<>>
  /\ run_button = FALSE
  /\ temp_image_path = None
  /\ shown = Blank
  /\ runs = 0

Next ==
  \/ UserUpload
  \/ UserSelectLocation
  \/ UserClickRun
  \/ ScriptNoUpload
  \/ ScriptPreview
  \/ ScriptRunDetection
  \/ ScriptRunException
  \/ SubprocessReturns
  \/ Timeout
  \/ Runner

Spec == Init /\ [][Next]_vars

-----------------------------------------------------------------------------
(* Properties of the runner, checked under RunnerSpec *)

\* extract_patches has run and the runner's memory is live
Tiled == k >= 1

\* the for loop of infer_full_mask has processed every patch and the
\* function returns mask_out and total_rooftop_pixels
StitchDone == rpc = "infer" /\ Tiled /\ k > Len(positions)

Height == image[1]
Width == image[2]

\* C1: extract_patches returns exactly the offsets (i*S, j*S), 0 <= i <
\* floor(H/S), 0 <= j < floor(W/S), each once and in row-major order, so
\* floor(H/S)*floor(W/S) patches, each fully inside the image.
C1_RowMajorOffsets ==
  Tiled =>
    LET S == PATCH_SIZE
        nr == Height \div S
        nc == Width \div S
    IN  /\ Len(positions) = nr * nc
        /\ \A i \in 0..(nr - 1) : \A j \in 0..(nc - 1) :
             positions[i * nc + j + 1] = <<i * S, j * S>>
        /\ \A n \in 1..Len(positions) :
             /\ positions[n][1] + S <= Height
             /\ positions[n][2] + S <= Width

C1_Witness ==
  /\ Tiled
  /\ Height = 2 * PATCH_SIZE + 72
  /\ Width = 2 * PATCH_SIZE + 72
  /\ positions = <<<<0, 0>>, <<0, PATCH_SIZE>>,
                   <<PATCH_SIZE, 0>>, <<PATCH_SIZE, PATCH_SIZE>>>>

\* C2 as stated: the stitched mask is floor(H/size)*size by floor(W/size)*size.
C2_Original ==
  Tiled =>
    /\ Len(mask_out) = (Height \div PATCH_SIZE) * PATCH_SIZE
    /\ \A r \in 1..Len(mask_out) :
         Len(mask_out[r]) = (Width \div PATCH_SIZE) * PATCH_SIZE

\* C2, amended: the stitched mask has the full H by W of the source image,
\* from its allocation to the end of the loop.
C2_MaskHasImageShape ==
  Tiled =>
    /\ Len(mask_out) = Height
    /\ \A r \in 1..Len(mask_out) : Len(mask_out[r]) = Width

C2_Witness ==
  /\ StitchDone
  /\ Len(positions) = 2
  /\ Height = PATCH_SIZE + 72
  /\ Len(mask_out) = PATCH_SIZE + 72

\* the PATCH_STITCHED steps of the trace, in order
Stitched == SelectSeq(trace, LAMBDA e : e.step = "PATCH_STITCHED")

\* the write regions of two stitch steps share a cell
Overlap(a, b) ==
  /\ a.y < b.y + PATCH_SIZE /\ b.y < a.y + PATCH_SIZE
  /\ a.x < b.x + PATCH_SIZE /\ b.x < a.x + PATCH_SIZE

\* C3: once every patch is processed, each cell inside a tiled patch holds the
\* label predicted for that patch at the same relative position, each cell
\* outside all tiled patches is 0, and no two writes touched the same cell.
C3_StitchedMask ==
  StitchDone =>
    /\ \A r \in 1..Height : \A c \in 1..Width :
         LET y0 == ((r - 1) \div PATCH_SIZE) * PATCH_SIZE
             x0 == ((c - 1) \div PATCH_SIZE) * PATCH_SIZE
         IN  IF y0 + PATCH_SIZE <= Height /\ x0 + PATCH_SIZE <= Width
             THEN mask_out[r][c] =
                    pred_mask(model, y0, x0, (r - 1) % PATCH_SIZE,
                              (c - 1) % PATCH_SIZE)
             ELSE mask_out[r][c] = 0
    /\ Len(Stitched) = Len(positions)
    /\ \A i \in 1..Len(Stitched) : \A j \in 1..Len(Stitched) :
         i # j => ~Overlap(Stitched[i], Stitched[j])

C3_Witness ==
  /\ StitchDone
  /\ model = "mixed"
  /\ Len(positions) = 4
  /\ Height = 2 * PATCH_SIZE + 72
  /\ mask_out[PATCH_SIZE + 1][2 * PATCH_SIZE] = 1
  /\ mask_out[2 * PATCH_SIZE][PATCH_SIZE + 1] = 0
  /\ mask_out[2 * PATCH_SIZE + 1][2 * PATCH_SIZE] = 0

\* the sum of counts[order[1]], ..., counts[order[n]], added in that order
RECURSIVE SumInOrder(_, _, _)
SumInOrder(counts, order, n) ==
  IF n = 0 THEN 0
  ELSE SumInOrder(counts, order, n - 1) + counts[order[n]]

\* C4: the count infer_full_mask returns is the sum over the patches of the
\* number of cells labelled 1 in the patch's predicted mask, whatever the
\* order the patches are taken in.
C4_CountIsSum ==
  StitchDone =>
    LET n == Len(positions)
    IN  \A counts \in {[i \in 1..n |->
                          sum_eq_1(model, positions[i][1], positions[i][2])]} :
          \A order \in Permutations(1..n) :
            total_rooftop_pixels = SumInOrder(counts, order, n)

C4_Witness ==
  /\ StitchDone
  /\ model = "mixed"
  /\ Len(positions) = 4
  /\ total_rooftop_pixels > 0
  /\ total_rooftop_pixels < 4 * PATCH_SIZE * PATCH_SIZE

\* the numbers printed after the last line of stdout that starts with text
\* (<<>> when there is none)
Printed(out, text) ==
  LET at == {i \in 1..Len(out) : out[i].text = text}
  IN  IF at = {} THEN <<>>
      ELSE out[CHOOSE i \in at : \A j \in at : j <= i].val

HasLine(out, text) == \E i \in 1..Len(out) : out[i].text = text

\* C5: the ROOFTOP_AREA printed is n * 0.09 with two decimals, n the rooftop
\* pixel count printed as ROOFTOP_PIXELS (9*n hundredths of a square metre);
\* a model predicting 0 everywhere gives ROOFTOP_PIXELS:0, ROOFTOP_AREA:0.00.
C5_AreaIsLinear ==
  HasLine(stdout, "ROOFTOP_AREA:") =>
    LET n == Printed(stdout, "ROOFTOP_PIXELS:")[1]
        a == Printed(stdout, "ROOFTOP_AREA:")
    IN  /\ HasLine(stdout, "ROOFTOP_PIXELS:")
        /\ n >= 0
        /\ Tiled => n = total_rooftop_pixels
        /\ a = <<(9 * n) \div 100, (9 * n) % 100>>
        /\ model = "background" => n = 0 /\ a = <<0, 0>>

C5_Witness ==
  /\ HasLine(stdout, "ROOFTOP_AREA:")
  /\ Tiled
  /\ model = "mixed"
  /\ total_rooftop_pixels > 0
  /\ rooftop_area < total_rooftop_pixels * PIXEL_AREA_M2
  /\ (9 * total_rooftop_pixels) % 100 # 0

\* the patches the image named on the command line tiles into
ExpectedPositions ==
  IF argv.path \in DOMAIN files
  THEN extract_patches(files[argv.path][1], files[argv.path][2],
                       PATCH_SIZE, STRIDE)
  ELSE <<>>

HasStep(step) == \E i \in 1..Len(trace) : trace[i].step = step

\* stdout ends with the complete RESULTS block
EndsWithResultsBlock ==
  /\ Len(stdout) >= 4
  /\ LET n == Len(stdout)
     IN  /\ stdout[n - 3].text = "RESULTS_START"
         /\ stdout[n - 2].text = "ROOFTOP_PIXELS:"
         /\ stdout[n - 1].text = "ROOFTOP_AREA:"
         /\ stdout[n].text = "RESULTS_END"

HasResultsLine ==
  \/ HasLine(stdout, "ROOFTOP_PIXELS:")
  \/ HasLine(stdout, "ROOFTOP_AREA:")

\* C6: an invocation that does not complete every step exits non-zero with no
\* ROOFTOP_PIXELS: or ROOFTOP_AREA: line; a wrong argument count or a missing
\* path exits with status 1 before the model is loaded; status 0 comes only
\* after the complete RESULTS block.
C6_NoPartialResults ==
  /\ returncode = 0 => EndsWithResultsBlock
  /\ (rpc = "exited" /\ returncode # 0) => ~HasResultsLine
  /\ HasResultsLine =>
       /\ HasStep("MODEL_LOADED") /\ HasStep("IMAGE_READ")
       /\ HasStep("TILES_GENERATED") /\ HasStep("VISUALIZATION_SAVED")
       /\ Len(Stitched) = Len(ExpectedPositions)
  /\ (rpc # "start" /\ (argv.n # 2 \/ argv.path \notin DOMAIN files)) =>
       /\ rpc = "exited" /\ returncode = 1
       /\ trace = <<>>
       /\ ~HasLine(stdout, "Loading model...")

C6_Witness ==
  /\ rpc = "exited"
  /\ returncode = 1
  /\ HasStep("TILES_GENERATED")
  /\ Len(Stitched) = Len(ExpectedPositions)
  /\ Len(Stitched) = 2
  /\ ~HasStep("VISUALIZATION_SAVED")

\* positions of the steps named step in the trace
StepsAt(step) == {i \in 1..Len(trace) : trace[i].step = step}

\* C9 as stated: in a successful invocation the RESULTS block is reported
\* before the visualization is saved, and the mask is stitched only after
\* all patches have been inferred.
C9_Original ==
  returncode = 0 =>
    /\ \A i \in StepsAt("RESULT_REPORTED") :
         \A j \in StepsAt("VISUALIZATION_SAVED") : i < j
    /\ \A i \in StepsAt("PATCH_INFERRED") :
         \A j \in StepsAt("PATCH_STITCHED") : i < j

\* the per-patch steps of the loop: each patch inferred, then stitched
RECURSIVE PatchSteps(_, _)
PatchSteps(ps, i) ==
  IF i > Len(ps) THEN <<>>
  ELSE <<Ev("PATCH_INFERRED", ps[i][1], ps[i][2]),
         Ev("PATCH_STITCHED", ps[i][1], ps[i][2])>> \o PatchSteps(ps, i + 1)

FullTrace ==
  <<Ev("START", 0, 0), Ev("MODEL_LOADED", 0, 0), Ev("IMAGE_READ", 0, 0),
    Ev("TILES_GENERATED", 0, 0)>>
  \o PatchSteps(ExpectedPositions, 1)
  \o <<Ev("VISUALIZATION_SAVED", 0, 0), Ev("RESULT_REPORTED", 0, 0),
       Ev("DONE", 0, 0)>>

\* C9, amended: the steps run in the order START, MODEL_LOADED, IMAGE_READ,
\* TILES_GENERATED, then for each patch in row-major order its inference
\* directly followed by its stitching, then VISUALIZATION_SAVED, then
\* RESULT_REPORTED, then DONE; a successful invocation runs them all.
C9_StepOrder ==
  /\ Len(trace) <= Len(FullTrace)
  /\ trace = SubSeq(FullTrace, 1, Len(trace))
  /\ returncode = 0 => trace = FullTrace

C9_Witness ==
  /\ returncode = 0
  /\ Len(ExpectedPositions) = 4
  /\ Len(trace) = 15

-----------------------------------------------------------------------------
(* Properties of the calling layer, checked under Spec *)

\* C7: every temporary .tif file written from an upload is deleted, whatever
\* the outcome, also when the run button is not pressed: once a rerun of the
\* script is over, no temporary file is left.
C7_TempFilesDeleted == uipc = "idle" => DOMAIN files = {}

\* a pixel or area value, or the figure, is on the page
ValuesShown ==
  \/ shown.rooftop_pixels # None
  \/ shown.rooftop_area # None
  \/ shown.visualization # 0

\* C8: pixel and area values are on the page only when the runner exited
\* with status 0 and both lines were parsed from its stdout; after a
\* timeout, a non-zero status or a missing line the page shows an error and
\* no value, whatever part of the output exists.
C8_NoPartialValues ==
  /\ ValuesShown =>
       /\ rpc = "exited" /\ returncode = 0
       /\ shown.status = "success"
       /\ HasLine(stdout, "ROOFTOP_PIXELS:")
       /\ HasLine(stdout, "ROOFTOP_AREA:")
       /\ shown.rooftop_pixels = Printed(stdout, "ROOFTOP_PIXELS:")[1]
       /\ shown.rooftop_area =
            100 * Printed(stdout, "ROOFTOP_AREA:")[1]
              + Printed(stdout, "ROOFTOP_AREA:")[2]
  /\ (uipc = "idle" /\ rpc = "killed") =>
       shown.status = "timeout" /\ ~ValuesShown
  /\ (uipc = "idle" /\ rpc = "exited" /\ returncode # 0) =>
       shown.status = "failed" /\ ~ValuesShown
  /\ (uipc = "idle" /\ rpc = "exited" /\ returncode = 0
        /\ ~(HasLine(stdout, "ROOFTOP_PIXELS:")
               /\ HasLine(stdout, "ROOFTOP_AREA:"))) =>
       shown.status = "parse_error" /\ ~ValuesShown

C8_Witness ==
  /\ uipc = "idle"
  /\ rpc = "killed"
  /\ EndsWithResultsBlock
  /\ shown.status = "timeout"
  /\ ~ValuesShown

\* C10: with invocations one at a time, the results.png shown beside a run's
\* values is the figure that same run saved, never an earlier run's file.
C10_FigureIsOfThisRun ==
  shown.visualization # 0 => shown.visualization = runs

C10_Witness ==
  /\ shown.status = "success"
  /\ shown.visualization = runs
  /\ Len(results_png) >= 2
  /\ results_png[Len(results_png) - 1] \in 1..(runs - 1)

====
